---- MODULE Spec2Model ----
(***************************************************************************)
(* The session navigator of src/src/App.js: the App component's state, the *)
(* handlers it passes to each screen, the local state of the Auth,         *)
(* Merchants and Unlock views that enables or disables those handlers, the *)
(* mock order progression timers and the guardrail effect.                 *)
(*                                                                         *)
(* React commits the state a handler sets, renders, and only then runs the *)
(* effects whose dependencies changed; no other event is handled between   *)
(* the commit and the effects.  phase = "effects" is that point: only      *)
(* RunEffects is enabled there.  Text is a sequence of one-character       *)
(* strings, so that replace(/\D/g, ""), trim, toLowerCase and includes are *)
(* computed.  Delays are not measured: a pending timer or continuation may *)
(* fire at any later idle point.  A view is mounted exactly while screen   *)
(* names it (the exit animation of AnimatePresence is not modelled).       *)
(* phase = "unmounted" is the session torn down: nothing runs any more.    *)
(***************************************************************************)
EXTENDS Integers, Sequences, FiniteSets, TLC

VARIABLES screen, user, locationId, arrivePointId, selectedMerchantId, order,
          showHow, search, phase, statusDep, timers, auth, authPending, q,
          unlock, unlockPending, staleUnlock

vars == <<screen, user, locationId, arrivePointId, selectedMerchantId, order,
          showHow, search, phase, statusDep, timers, auth, authPending, q,
          unlock, unlockPending, staleUnlock>>

appVars == <<screen, user, locationId, arrivePointId, selectedMerchantId, order>>
authVars == <<auth, authPending>>
unlockVars == <<unlock, unlockPending, staleUnlock>>
effectVars == <<statusDep, timers>>

\* JavaScript null where the other values are objects (user, order, location).
null == [null |-> TRUE]
\* JavaScript null where the other values are strings (selectedMerchantId, a
\* URL parameter that is absent).
nullId == "null"

---------------------------------------------------------------------------
\* Bounds of the model.

\* Number of distinct order ids Math.random is taken to produce.
MaxOrderIds == 2
\* Number of abandoned doUnlock continuations that may be pending at once.
MaxStale == 1

---------------------------------------------------------------------------
\* Mock data.

LOCATIONS == <<
  [id |-> "vp-launch-fishers", name |-> "Launch Fishers",
   arrivePoints |-> << [id |-> "AP-101", label |-> "AP-101 Lobby", type |-> "shared"],
                       [id |-> "AP-102", label |-> "AP-102 Suite Wing", type |-> "shared"] >>],
  [id |-> "vp-building-a", name |-> "Visionary Park Building A",
   arrivePoints |-> << [id |-> "AP-201", label |-> "AP-201 Main Entrance", type |-> "private"] >>],
  [id |-> "vp-building-b", name |-> "Visionary Park Building B",
   arrivePoints |-> << [id |-> "AP-301", label |-> "AP-301 Mail Room", type |-> "private"] >> ] >>

MERCHANTS == <<
  [id |-> "merchant-1", name |-> "Sushi & Bowls", category |-> "Asian",
   etaMins |-> 28, open |-> TRUE,
   nameChars |-> <<"S","u","s","h","i"," ","&"," ","B","o","w","l","s">>,
   categoryChars |-> <<"A","s","i","a","n">>],
  [id |-> "merchant-2", name |-> "Garlic Noodle House", category |-> "Noodles",
   etaMins |-> 32, open |-> TRUE,
   nameChars |-> <<"G","a","r","l","i","c"," ","N","o","o","d","l","e"," ","H","o","u","s","e">>,
   categoryChars |-> <<"N","o","o","d","l","e","s">>],
  [id |-> "merchant-3", name |-> "Grill & Greens", category |-> "Bowls",
   etaMins |-> 24, open |-> FALSE,
   nameChars |-> <<"G","r","i","l","l"," ","&"," ","G","r","e","e","n","s">>,
   categoryChars |-> <<"B","o","w","l","s">>] >>

SCREENS == {"LANDING", "AUTH", "DESTINATION", "MERCHANTS", "MERCHANT_DETAIL",
            "TRACKING", "UNLOCK"}

\* The keys of Tracking's steps, in order.
steps == <<"PLACED", "ACCEPTED", "PREPARING", "READY", "PICKED_UP", "IN_FLIGHT",
           "DELIVERED">>

Range(s) == {s[i] : i \in DOMAIN s}

\* steps.findIndex((s) => s.key === status), counted from 1.
idx(status) == CHOOSE i \in DOMAIN steps : steps[i] = status

---------------------------------------------------------------------------
\* Text helpers.

Digits == {"0", "1", "2", "3", "4", "5", "6", "7", "8", "9"}
IsDigit(c) == c \in Digits

\* raw.replace(/\D/g, "")
digitsOf(raw) == SelectSeq(raw, IsDigit)

\* s.slice(0, n)
slice0(s, n) == SubSeq(s, 1, IF Len(s) < n THEN Len(s) ELSE n)

Upper == <<"A","B","C","D","E","F","G","H","I","J","K","L","M",
           "N","O","P","Q","R","S","T","U","V","W","X","Y","Z">>
Lower == <<"a","b","c","d","e","f","g","h","i","j","k","l","m",
           "n","o","p","q","r","s","t","u","v","w","x","y","z">>

toLowerCase(s) ==
  [i \in 1..Len(s) |->
     IF \E k \in DOMAIN Upper : Upper[k] = s[i]
       THEN Lower[CHOOSE k \in DOMAIN Upper : Upper[k] = s[i]]
       ELSE s[i]]

RECURSIVE trimStart(_)
trimStart(s) == IF s # <<>> /\ Head(s) = " " THEN trimStart(Tail(s)) ELSE s

RECURSIVE trimEnd(_)
trimEnd(s) ==
  IF s # <<>> /\ s[Len(s)] = " " THEN trimEnd(SubSeq(s, 1, Len(s) - 1)) ELSE s

trim(s) == trimEnd(trimStart(s))

\* hay.includes(needle)
includes(hay, needle) ==
  \E i \in 0..(Len(hay) - Len(needle)) : SubSeq(hay, i + 1, i + Len(needle)) = needle

---------------------------------------------------------------------------
\* Inputs.

\* window.location.search: the value of its "location" parameter, null when
\* the parameter is absent ("vp-unknown" is an id LOCATIONS does not have).
DeepLinks == {nullId, "", "vp-building-a", "vp-unknown"}

\* Texts typed into the phone field.
PhoneInputs == { <<"3","1","7","5","5","5">>,
                 <<"3","1","7","5","5","5","0","1","2","3">>,
                 <<"(","3","1","7",")"," ","5","5","5","-","0","1","2","3">> }

\* Texts typed into a one-time-code field.
OtpInputs == { <<"1","2","3">>, <<"1","2","a","3","4","5","6","7">> }

\* Texts typed into the merchant search field.
Queries == { <<>>, <<" ","B","o","w","l","s">>, <<"n","o","o","d">>,
             <<"g","r","i","l","l">> }

\* `VP-${Math.floor(Math.random() * 90000) + 10000}`
IdBase == 10000
IdSpan == 90000
OrderIds == {IdBase + n : n \in 0..((IF MaxOrderIds < IdSpan THEN MaxOrderIds ELSE IdSpan) - 1)}

---------------------------------------------------------------------------
\* Derived values of App (useMemo).

location ==
  IF \E i \in DOMAIN LOCATIONS : LOCATIONS[i].id = locationId
    THEN LOCATIONS[CHOOSE i \in DOMAIN LOCATIONS : LOCATIONS[i].id = locationId]
    ELSE null

arrivePoint ==
  IF location = null THEN null
  ELSE IF \E i \in DOMAIN location.arrivePoints : location.arrivePoints[i].id = arrivePointId
    THEN location.arrivePoints[CHOOSE i \in DOMAIN location.arrivePoints :
                                  location.arrivePoints[i].id = arrivePointId]
    ELSE null

deliveryContext ==
  IF location = null \/ arrivePoint = null THEN null
  ELSE [locationName |-> location.name, arrivePointId |-> arrivePoint.id,
        arrivePointLabel |-> arrivePoint.label]

selectedMerchant ==
  IF \E i \in DOMAIN MERCHANTS : MERCHANTS[i].id = selectedMerchantId
    THEN MERCHANTS[CHOOSE i \in DOMAIN MERCHANTS : MERCHANTS[i].id = selectedMerchantId]
    ELSE null

\* order?.status
orderStatus == IF order = null THEN "undefined" ELSE order.status

---------------------------------------------------------------------------
\* Initial local state of the views (useState defaults).

AuthInit == [step |-> "PHONE", phone |-> <<>>, otp |-> <<>>, loading |-> FALSE]
UnlockInit == [mode |-> "QR", unlocking |-> FALSE, unlocked |-> FALSE, otp |-> <<>>]

Init ==
  /\ screen = "LANDING"
  /\ user = null
  /\ locationId = ""
  /\ arrivePointId = ""
  /\ selectedMerchantId = nullId
  /\ order = null
  /\ showHow = FALSE
  /\ search \in DeepLinks
  /\ phase = "mount"
  /\ statusDep = "undefined"
  /\ timers = {}
  /\ auth = AuthInit
  /\ authPending = <<>>
  /\ q = <<>>
  /\ unlock = UnlockInit
  /\ unlockPending = 0
  /\ staleUnlock = 0

---------------------------------------------------------------------------
\* Mounting and unmounting of the views when screen goes from old to new.
\* A view's useState values exist while it is mounted and start from their
\* defaults when it mounts; a doUnlock continuation of an unmounted Unlock
\* stays pending, with nothing left to write to.

Remount(old, new) ==
  /\ auth' = IF old = "AUTH" /\ new = "AUTH" THEN auth ELSE AuthInit
  /\ q' = IF old = "MERCHANTS" /\ new = "MERCHANTS" THEN q ELSE <<>>
  /\ unlock' = IF old = "UNLOCK" /\ new = "UNLOCK" THEN unlock ELSE UnlockInit
  /\ unlockPending' = IF old = "UNLOCK" /\ new = "UNLOCK" THEN unlockPending ELSE 0
  /\ staleUnlock' = IF old = "UNLOCK" /\ new # "UNLOCK"
                      THEN staleUnlock + unlockPending ELSE staleUnlock

\* setScreen(target) in a handler: the state is committed and the effects are due.
setScreen(target) ==
  /\ screen' = target
  /\ Remount(screen, target)
  /\ phase' = "effects"

---------------------------------------------------------------------------
\* Effects of App.

\* Read QR deep link: if (loc) setLocationId(loc).
DeepLinkLocation == IF search # nullId /\ search # "" THEN search ELSE locationId

\* advance with the target of READY mistyped.
advanceMistyped(status) ==
  (IF status = "PLACED" THEN {"ACCEPTED"} ELSE {})
    \cup (IF status = "ACCEPTED" THEN {"PREPARING"} ELSE {})
    \cup (IF status = "PREPARING" THEN {"READY"} ELSE {})
    \cup (IF status = "READY" THEN {"PREPARING"} ELSE {})
    \cup (IF status = "PICKED_UP" THEN {"IN_FLIGHT"} ELSE {})
    \cup (IF status = "IN_FLIGHT" THEN {"DELIVERED"} ELSE {})

\* advance without its last line: nothing is set for IN_FLIGHT.
advanceStopsInFlight(status) ==
  (IF status = "PLACED" THEN {"ACCEPTED"} ELSE {})
    \cup (IF status = "ACCEPTED" THEN {"PREPARING"} ELSE {})
    \cup (IF status = "PREPARING" THEN {"READY"} ELSE {})
    \cup (IF status = "READY" THEN {"PICKED_UP"} ELSE {})
    \cup (IF status = "PICKED_UP" THEN {"IN_FLIGHT"} ELSE {})

\* The timers the progression effect sets for a status: advance(next, ms).
advance(status) ==
  (IF status = "PLACED" THEN {"ACCEPTED"} ELSE {})
    \cup (IF status = "ACCEPTED" THEN {"PREPARING"} ELSE {})
    \cup (IF status = "PREPARING" THEN {"READY"} ELSE {})
    \cup (IF status = "READY" THEN {"PICKED_UP"} ELSE {})
    \cup (IF status = "PICKED_UP" THEN {"IN_FLIGHT"} ELSE {})
    \cup (IF status = "IN_FLIGHT" THEN {"DELIVERED"} ELSE {})

\* Mock order status progression: the timers pending after the effect ran for
\* order o (its cleanup has cleared the timers of the previous run).
progression(o) ==
  IF o = null THEN {}
  ELSE IF o.status = "DELIVERED" THEN {}
  ELSE advance(o.status)

\* Simple guardrails: the screen the effect leaves.
Guardrails(scr, u, loc, ap) ==
  IF scr = "LANDING" THEN scr
  ELSE IF u = null /\ scr # "AUTH" THEN "AUTH"
  ELSE IF u # null /\ (loc = "" \/ ap = "") /\ scr # "DESTINATION" /\ scr # "AUTH"
    THEN "DESTINATION"
  ELSE scr

\* The effects after the first render: the deep link is read once; the order
\* is null and the screen LANDING, so the other two effects return at once.
MountEffects ==
  /\ phase = "mount"
  /\ locationId' = DeepLinkLocation
  /\ phase' = IF locationId' # locationId THEN "effects" ELSE "idle"
  /\ UNCHANGED <<screen, user, arrivePointId, selectedMerchantId, order, showHow,
                 search, statusDep, timers, auth, authPending, q, unlock,
                 unlockPending, staleUnlock>>

\* The effects after a commit, the progression effect returning no cleanup:
\* the timers of its earlier runs stay.
RunEffectsNoCleanup ==
  /\ phase = "effects"
  /\ timers' = IF orderStatus # statusDep THEN timers \cup progression(order) ELSE timers
  /\ statusDep' = orderStatus
  /\ screen' = Guardrails(screen, user, locationId, arrivePointId)
  /\ Remount(screen, screen')
  /\ phase' = IF screen' # screen THEN "effects" ELSE "idle"
  /\ UNCHANGED <<user, locationId, arrivePointId, selectedMerchantId, order,
                 showHow, search, authPending>>

\* The effects after a commit.  The progression effect runs when order?.status
\* differs from the value it last ran with; the guardrail effect returns the
\* screen it is given whenever its dependencies are those of its last run, so
\* it is applied at every commit.  A setScreen of the guardrail is a further
\* commit, with effects of its own.
RunEffects ==
  /\ phase = "effects"
  /\ timers' = IF orderStatus # statusDep THEN progression(order) ELSE timers
  /\ statusDep' = orderStatus
  /\ screen' = Guardrails(screen, user, locationId, arrivePointId)
  /\ Remount(screen, screen')
  /\ phase' = IF screen' # screen THEN "effects" ELSE "idle"
  /\ UNCHANGED <<user, locationId, arrivePointId, selectedMerchantId, order,
                 showHow, search, authPending>>

\* App is unmounted (the page is left): the cleanup of the progression effect
\* clears the timers of its last run.  The state of the session is no longer
\* rendered or written; it is kept here as it was.
Unmount ==
  /\ phase = "idle"
  /\ phase' = "unmounted"
  /\ timers' = {}
  /\ UNCHANGED <<appVars, showHow, search, statusDep, authVars, q, unlockVars>>

\* A progression timer fires: setOrder((o) => ({ ...o, status: next })).
TimerFire(next) ==
  /\ phase = "idle"
  /\ next \in timers
  /\ timers' = timers \ {next}
  /\ order' = [order EXCEPT !.status = next]
  /\ phase' = "effects"
  /\ UNCHANGED <<screen, user, locationId, arrivePointId, selectedMerchantId,
                 showHow, search, statusDep, auth, authPending, q, unlock,
                 unlockPending, staleUnlock>>

---------------------------------------------------------------------------
\* Top bar.

OpenHow ==
  /\ phase = "idle"
  /\ ~showHow
  /\ showHow' = TRUE
  /\ UNCHANGED <<appVars, search, phase, effectVars, authVars, q, unlockVars>>

CloseHow ==
  /\ phase = "idle"
  /\ showHow
  /\ showHow' = FALSE
  /\ UNCHANGED <<appVars, search, phase, effectVars, authVars, q, unlockVars>>

---------------------------------------------------------------------------
\* Landing.

\* Continue of Landing leading past Auth.
LandingContinueSkipsAuth ==
  /\ phase = "idle"
  /\ screen = "LANDING"
  /\ setScreen("DESTINATION")
  /\ UNCHANGED <<user, locationId, arrivePointId, selectedMerchantId, order,
                 showHow, search, effectVars, authPending>>

LandingContinue ==
  /\ phase = "idle"
  /\ screen = "LANDING"
  /\ setScreen("AUTH")
  /\ UNCHANGED <<user, locationId, arrivePointId, selectedMerchantId, order,
                 showHow, search, effectVars, authPending>>

---------------------------------------------------------------------------
\* Auth.

canSend == Len(digitsOf(auth.phone)) = 10
canVerify == Len(digitsOf(auth.otp)) = 6

AuthLocal == <<appVars, showHow, search, phase, effectVars, q, unlockVars>>

AuthSetPhone(raw) ==
  /\ phase = "idle"
  /\ screen = "AUTH"
  /\ auth.step = "PHONE"
  /\ auth' = [auth EXCEPT !.phone = raw]
  /\ UNCHANGED <<AuthLocal, authPending>>

\* The awaits still pending once the i-th of them has resolved.
resolved(pending, i) ==
  SubSeq(pending, 1, i - 1) \o SubSeq(pending, i + 1, Len(pending))

\* send(), up to its await.
AuthSend ==
  /\ phase = "idle"
  /\ screen = "AUTH"
  /\ auth.step = "PHONE"
  /\ ~(~canSend \/ auth.loading)
  /\ auth' = [auth EXCEPT !.loading = TRUE]
  /\ authPending' = Append(authPending, [kind |-> "send", phone |-> auth.phone])
  /\ UNCHANGED AuthLocal

\* send(), after its await.
AuthSendDone ==
  /\ phase = "idle"
  /\ \E i \in DOMAIN authPending :
       /\ authPending[i].kind = "send"
       /\ authPending' = resolved(authPending, i)
  /\ auth' = IF screen = "AUTH"
               THEN [auth EXCEPT !.loading = FALSE, !.step = "OTP"] ELSE auth
  /\ UNCHANGED AuthLocal

AuthSetOtp(raw) ==
  /\ phase = "idle"
  /\ screen = "AUTH"
  /\ auth.step = "OTP"
  /\ auth' = [auth EXCEPT !.otp = slice0(digitsOf(raw), 6)]
  /\ UNCHANGED <<AuthLocal, authPending>>

AuthBack ==
  /\ phase = "idle"
  /\ screen = "AUTH"
  /\ auth.step = "OTP"
  /\ auth' = [auth EXCEPT !.step = "PHONE"]
  /\ UNCHANGED <<AuthLocal, authPending>>

\* verify() behind a button that stays enabled while loading.
AuthVerifyWhileLoading ==
  /\ phase = "idle"
  /\ screen = "AUTH"
  /\ auth.step = "OTP"
  /\ canVerify
  /\ auth' = [auth EXCEPT !.loading = TRUE]
  /\ authPending' = Append(authPending, [kind |-> "verify", phone |-> auth.phone])
  /\ UNCHANGED AuthLocal

\* verify(), up to its await.
AuthVerify ==
  /\ phase = "idle"
  /\ screen = "AUTH"
  /\ auth.step = "OTP"
  /\ ~(~canVerify \/ auth.loading)
  /\ auth' = [auth EXCEPT !.loading = TRUE]
  /\ authPending' = Append(authPending, [kind |-> "verify", phone |-> auth.phone])
  /\ UNCHANGED AuthLocal

\* onAuthed without its setUser(u).
onAuthedNoUser(u) ==
  /\ user' = user
  /\ setScreen("DESTINATION")

\* onAuthed(u) of App.
onAuthed(u) ==
  /\ user' = u
  /\ setScreen("DESTINATION")

\* verify(), after its await: setLoading(false), then onAuthed with the phone
\* of the render in which Verify was pressed (Auth unmounts with the commit).
AuthVerifyDone ==
  /\ phase = "idle"
  /\ \E i \in DOMAIN authPending :
       /\ authPending[i].kind = "verify"
       /\ authPending' = resolved(authPending, i)
       /\ onAuthed([phone |-> digitsOf(authPending[i].phone)])
  /\ UNCHANGED <<locationId, arrivePointId, selectedMerchantId, order, showHow,
                 search, effectVars>>

---------------------------------------------------------------------------
\* Destination.

\* canContinue looking at locationId alone.
canContinueLocationOnly == locationId # ""

canContinue == locationId # "" /\ arrivePointId # ""

\* The arrive points of every location, whatever locationId is.
arrivePointButtonsAll == UNION {Range(l.arrivePoints) : l \in Range(LOCATIONS)}

\* The arrive point buttons Destination renders.
arrivePointButtons == IF location = null THEN {} ELSE Range(location.arrivePoints)

\* onPickLocation without its setArrivePointId("").
onPickLocationKeep(id) ==
  /\ locationId' = id
  /\ UNCHANGED arrivePointId

onPickLocation(id) ==
  /\ locationId' = id
  /\ arrivePointId' = ""

onPickArrivePoint(id) ==
  /\ arrivePointId' = id
  /\ UNCHANGED locationId

DestinationLocal == <<screen, user, selectedMerchantId, order, showHow, search,
                      effectVars, authVars, q, unlockVars>>

PickLocation(l) ==
  /\ phase = "idle"
  /\ screen = "DESTINATION"
  /\ l \in Range(LOCATIONS)
  /\ onPickLocation(l.id)
  /\ phase' = "effects"
  /\ UNCHANGED DestinationLocal

PickArrivePoint(ap) ==
  /\ phase = "idle"
  /\ screen = "DESTINATION"
  /\ ap \in arrivePointButtons
  /\ onPickArrivePoint(ap.id)
  /\ phase' = "effects"
  /\ UNCHANGED DestinationLocal

DestinationContinue ==
  /\ phase = "idle"
  /\ screen = "DESTINATION"
  /\ ~(~canContinue)
  /\ setScreen("MERCHANTS")
  /\ UNCHANGED <<user, locationId, arrivePointId, selectedMerchantId, order,
                 showHow, search, effectVars, authPending>>

---------------------------------------------------------------------------
\* Merchants.

\* The merchants the list shows for the search text q.
filtered ==
  LET s == toLowerCase(trim(q))
      hit(m) == \/ includes(toLowerCase(m.nameChars), s)
                \/ includes(toLowerCase(m.categoryChars), s)
  IN  IF s = <<>> THEN MERCHANTS ELSE SelectSeq(MERCHANTS, hit)

\* A merchant button that is never disabled.
merchantNeverDisabled(m) == FALSE

\* disabled={!m.open} of a merchant button.
merchantDisabled(m) == ~m.open

MerchantsSearch(text) ==
  /\ phase = "idle"
  /\ screen = "MERCHANTS"
  /\ q' = text
  /\ UNCHANGED <<appVars, showHow, search, phase, effectVars, authVars, unlockVars>>

\* onSelect without its setSelectedMerchantId(id).
onSelectNoId(id) ==
  /\ UNCHANGED selectedMerchantId
  /\ setScreen("MERCHANT_DETAIL")

onSelect(id) ==
  /\ selectedMerchantId' = id
  /\ setScreen("MERCHANT_DETAIL")

SelectMerchant(m) ==
  /\ phase = "idle"
  /\ screen = "MERCHANTS"
  /\ m \in Range(filtered)
  /\ ~merchantDisabled(m)
  /\ onSelect(m.id)
  /\ UNCHANGED <<user, locationId, arrivePointId, order, showHow, search,
                 effectVars, authPending>>

---------------------------------------------------------------------------
\* MerchantDetail, rendered when screen is MERCHANT_DETAIL and selectedMerchant
\* is not null.

DetailBack ==
  /\ phase = "idle"
  /\ screen = "MERCHANT_DETAIL" /\ selectedMerchant # null
  /\ setScreen("MERCHANTS")
  /\ UNCHANGED <<user, locationId, arrivePointId, selectedMerchantId, order,
                 showHow, search, effectVars, authPending>>

\* newOrder of onCheckout, n being Math.floor(Math.random() * 90000) + 10000.
newOrder(n) ==
  [id |-> n, status |-> "PLACED", merchantName |-> selectedMerchant.name,
   eta |-> selectedMerchant.etaMins]

onCheckout(n) ==
  /\ order' = newOrder(n)
  /\ setScreen("TRACKING")

Checkout(n) ==
  /\ phase = "idle"
  /\ screen = "MERCHANT_DETAIL" /\ selectedMerchant # null
  /\ n \in OrderIds
  /\ onCheckout(n)
  /\ UNCHANGED <<user, locationId, arrivePointId, selectedMerchantId, showHow,
                 search, effectVars, authPending>>

---------------------------------------------------------------------------
\* Tracking, rendered when screen is TRACKING and order is not null.

\* canUnlock true of every order.
canUnlockAlways == order.status \in Range(steps)

\* canUnlock one step early.
canUnlockInFlight == order.status \in {"IN_FLIGHT", "DELIVERED"}

canUnlock == order.status = "DELIVERED"

\* Back of Tracking leading to the merchant's detail instead of the list.
TrackingBackToDetail ==
  /\ phase = "idle"
  /\ screen = "TRACKING" /\ order # null
  /\ setScreen("MERCHANT_DETAIL")
  /\ UNCHANGED <<user, locationId, arrivePointId, selectedMerchantId, order,
                 showHow, search, effectVars, authPending>>

TrackingBack ==
  /\ phase = "idle"
  /\ screen = "TRACKING" /\ order # null
  /\ setScreen("MERCHANTS")
  /\ UNCHANGED <<user, locationId, arrivePointId, selectedMerchantId, order,
                 showHow, search, effectVars, authPending>>

TrackingUnlock ==
  /\ phase = "idle"
  /\ screen = "TRACKING" /\ order # null
  /\ ~(~canUnlock)
  /\ setScreen("UNLOCK")
  /\ UNCHANGED <<user, locationId, arrivePointId, selectedMerchantId, order,
                 showHow, search, effectVars, authPending>>

---------------------------------------------------------------------------
\* Unlock, rendered when screen is UNLOCK and order is not null.

UnlockLocal == <<appVars, showHow, search, phase, effectVars, authVars, q>>

UnlockSetMode(mode) ==
  /\ phase = "idle"
  /\ screen = "UNLOCK" /\ order # null
  /\ unlock' = [unlock EXCEPT !.mode = mode]
  /\ UNCHANGED <<UnlockLocal, unlockPending, staleUnlock>>

UnlockSetOtp(raw) ==
  /\ phase = "idle"
  /\ screen = "UNLOCK" /\ order # null
  /\ unlock.mode = "OTP"
  /\ unlock' = [unlock EXCEPT !.otp = slice0(digitsOf(raw), 6)]
  /\ UNCHANGED <<UnlockLocal, unlockPending, staleUnlock>>

\* doUnlock(), up to its await.
DoUnlock ==
  /\ phase = "idle"
  /\ screen = "UNLOCK" /\ order # null
  /\ ~unlock.unlocked
  /\ ~unlock.unlocking
  /\ staleUnlock < MaxStale
  /\ unlock' = [unlock EXCEPT !.unlocking = TRUE]
  /\ unlockPending' = unlockPending + 1
  /\ UNCHANGED <<UnlockLocal, staleUnlock>>

\* doUnlock(), after its await, its Unlock still mounted.
DoUnlockDone ==
  /\ phase = "idle"
  /\ unlockPending > 0
  /\ unlockPending' = unlockPending - 1
  /\ unlock' = [unlock EXCEPT !.unlocking = FALSE, !.unlocked = TRUE]
  /\ UNCHANGED <<UnlockLocal, staleUnlock>>

\* doUnlock(), after its await, its Unlock unmounted: the two setters write
\* to a component that is gone.
DoUnlockStale ==
  /\ phase = "idle"
  /\ staleUnlock > 0
  /\ staleUnlock' = staleUnlock - 1
  /\ UNCHANGED <<UnlockLocal, unlock, unlockPending>>

\* Done that also drops the order: setOrder(null).
UnlockDoneDropsOrder ==
  /\ phase = "idle"
  /\ screen = "UNLOCK" /\ order # null
  /\ order' = null
  /\ setScreen("MERCHANTS")
  /\ UNCHANGED <<user, locationId, arrivePointId, selectedMerchantId, showHow,
                 search, effectVars, authPending>>

UnlockDone ==
  /\ phase = "idle"
  /\ screen = "UNLOCK" /\ order # null
  /\ setScreen("MERCHANTS")
  /\ UNCHANGED <<user, locationId, arrivePointId, selectedMerchantId, order,
                 showHow, search, effectVars, authPending>>

---------------------------------------------------------------------------
Next ==
  \/ MountEffects
  \/ RunEffects
  \/ Unmount
  \/ \E next \in Range(steps) : TimerFire(next)
  \/ OpenHow
  \/ CloseHow
  \/ LandingContinue
  \/ \E raw \in PhoneInputs : AuthSetPhone(raw)
  \/ AuthSend
  \/ AuthSendDone
  \/ \E raw \in OtpInputs : AuthSetOtp(raw)
  \/ AuthBack
  \/ AuthVerify
  \/ AuthVerifyDone
  \/ \E l \in Range(LOCATIONS) : PickLocation(l)
  \/ \E ap \in UNION {Range(l.arrivePoints) : l \in Range(LOCATIONS)} : PickArrivePoint(ap)
  \/ DestinationContinue
  \/ \E text \in Queries : MerchantsSearch(text)
  \/ \E m \in Range(MERCHANTS) : SelectMerchant(m)
  \/ DetailBack
  \/ \E n \in OrderIds : Checkout(n)
  \/ TrackingBack
  \/ TrackingUnlock
  \/ \E mode \in {"QR", "OTP"} : UnlockSetMode(mode)
  \/ \E raw \in OtpInputs : UnlockSetOtp(raw)
  \/ DoUnlock
  \/ DoUnlockDone
  \/ DoUnlockStale
  \/ UnlockDone

Spec == Init /\ [][Next]_vars

---------------------------------------------------------------------------
\* Properties.

LaterScreens == {"MERCHANTS", "MERCHANT_DETAIL", "TRACKING", "UNLOCK"}

\* C1: in every reachable state where user is null, screen is LANDING or AUTH.
C1_NoUserOnlyLandingOrAuth ==
  user = null => screen \in {"LANDING", "AUTH"}

\* Nobody is signed in, Auth is shown and a verify is on its way.
C1_Witness ==
  /\ user = null
  /\ screen = "AUTH"
  /\ \E i \in DOMAIN authPending : authPending[i].kind = "verify"

\* C2: with user set, screen is MERCHANTS, MERCHANT_DETAIL, TRACKING or UNLOCK
\* only if locationId and arrivePointId are both non-empty, whatever the deep
\* link was.
C2_LaterScreensNeedDestination ==
  (user # null /\ screen \in LaterScreens) => (locationId # "" /\ arrivePointId # "")

\* A session opened with a deep link to an unknown location is tracking an order.
C2_Witness ==
  /\ search = "vp-unknown"
  /\ user # null
  /\ screen = "TRACKING"

\* C3: no step is the unlock intent unless order.status is DELIVERED, and
\* screen becomes UNLOCK only from TRACKING with a DELIVERED order.
C3_UnlockOnlyWhenDelivered ==
  [][/\ orderStatus # "DELIVERED" => ~TrackingUnlock
     /\ (screen' = "UNLOCK" /\ screen # "UNLOCK")
          => (screen = "TRACKING" /\ orderStatus = "DELIVERED")]_vars

\* The unlock intent has just been taken.
C3_Witness ==
  /\ screen = "UNLOCK"
  /\ phase = "effects"
  /\ orderStatus = "DELIVERED"

\* C4 as stated: once an order exists, order.status never moves to an earlier
\* position of steps.
C4_StatusNeverMovesBack ==
  [][order # null => (order' # null /\ idx(order'.status) >= idx(order.status))]_vars

\* C4 as amended: order changes only by a timer moving status to the next
\* step, or by a checkout installing a new order with status PLACED; and no
\* timer is pending while status is DELIVERED.
C4_StatusMovesOneStepOrCheckout ==
  /\ [](orderStatus = "DELIVERED" => timers = {})
  /\ [][(order # null /\ order' # order)
          => \/ /\ order.status # "DELIVERED"
                /\ order' = [order EXCEPT !.status = steps[idx(order.status) + 1]]
             \/ /\ screen = "MERCHANT_DETAIL" /\ screen' = "TRACKING"
                /\ order' # null
                /\ order'.status = "PLACED"]_vars

\* A checkout has just replaced a delivered order by a new one.
C4_Witness ==
  /\ phase = "effects"
  /\ orderStatus = "PLACED"
  /\ statusDep = "DELIVERED"

\* C5: a non-empty arrivePointId is the id of an arrive point of the location
\* of LOCATIONS that locationId names.
C5_ArrivePointBelongsToLocation ==
  arrivePointId # ""
    => \E l \in Range(LOCATIONS) :
         /\ l.id = locationId
         /\ \E ap \in Range(l.arrivePoints) : ap.id = arrivePointId

\* An arrive point is chosen in a session whose deep link named no location
\* of LOCATIONS.
C5_Witness ==
  /\ search = "vp-unknown"
  /\ locationId = "vp-launch-fishers"
  /\ arrivePointId = "AP-102"

\* C6 as stated: a change of locationId leaves arrivePointId empty, and
\* picking the location that is already selected leaves arrivePointId as it is.
C6_SameLocationKeepsArrivePoint ==
  [][/\ locationId' # locationId => arrivePointId' = ""
     /\ \A l \in Range(LOCATIONS) :
          (PickLocation(l) /\ l.id = locationId) => arrivePointId' = arrivePointId]_vars

\* C6 as amended: a change of locationId leaves arrivePointId empty, and
\* every pick of a location, the selected one included, leaves locationId
\* that location and arrivePointId empty (so a second pick changes nothing).
C6_PickLocationClearsArrivePoint ==
  [][/\ locationId' # locationId => arrivePointId' = ""
     /\ \A l \in Range(LOCATIONS) :
          PickLocation(l) => (locationId' = l.id /\ arrivePointId' = "")]_vars

\* A location other than the deep link's has just been picked.
C6_Witness ==
  /\ phase = "effects"
  /\ screen = "DESTINATION"
  /\ search = "vp-building-a"
  /\ locationId = "vp-building-b"
  /\ arrivePointId = ""

\* C7 as stated: once an order exists, no step replaces it: its id,
\* merchantName and eta stay what the first checkout made them.
C7_OrderNeverReplaced ==
  [][order # null
       => /\ order' # null
          /\ order'.id = order.id
          /\ order'.merchantName = order.merchantName
          /\ order'.eta = order.eta]_vars

\* C7 as amended: an order is never removed, and its id, merchantName and eta
\* change only when a checkout on MERCHANT_DETAIL installs the new order of
\* the selected merchant.
C7_OrderReplacedOnlyByCheckout ==
  [][order # null
       => /\ order' # null
          /\ (\/ order'.id # order.id
              \/ order'.merchantName # order.merchantName
              \/ order'.eta # order.eta)
               => /\ screen = "MERCHANT_DETAIL" /\ screen' = "TRACKING"
                  /\ selectedMerchant # null
                  /\ \E n \in OrderIds : order' = newOrder(n)]_vars

\* A checkout has just replaced an order that was in flight.
C7_Witness ==
  /\ phase = "effects"
  /\ screen = "TRACKING"
  /\ orderStatus = "PLACED"
  /\ statusDep = "IN_FLIGHT"

\* The screen changes of the stated state machine.
StatedEdges ==
  { <<"LANDING", "AUTH">>, <<"AUTH", "DESTINATION">>, <<"DESTINATION", "MERCHANTS">>,
    <<"MERCHANTS", "MERCHANT_DETAIL">>, <<"MERCHANT_DETAIL", "MERCHANTS">>,
    <<"MERCHANT_DETAIL", "TRACKING">>, <<"TRACKING", "UNLOCK">>,
    <<"UNLOCK", "MERCHANTS">> }

\* C8 as stated: every change of screen is one of the stated edges.
C8_OnlyStatedEdges ==
  [][screen' # screen => <<screen, screen'>> \in StatedEdges]_vars

\* C8 as amended: every change of screen is one of the stated edges or
\* TRACKING -> MERCHANTS (Back to merchants).
C8_StatedEdgesAndTrackingBack ==
  [][screen' # screen
       => <<screen, screen'>> \in StatedEdges \cup {<<"TRACKING", "MERCHANTS">>}]_vars

\* The list of merchants is shown again while an order is still on its way.
C8_Witness ==
  /\ phase = "effects"
  /\ screen = "MERCHANTS"
  /\ order # null
  /\ timers # {}

\* C9: MERCHANT_DETAIL is shown only with a selected merchant of MERCHANTS,
\* TRACKING and UNLOCK only with an order.
C9_ScreensHaveTheirData ==
  /\ screen = "MERCHANT_DETAIL" => selectedMerchant # null
  /\ screen = "TRACKING" => order # null
  /\ screen = "UNLOCK" => order # null

\* The last of the three screens is reached, with a merchant and an order.
C9_Witness ==
  /\ screen = "UNLOCK"
  /\ order # null
  /\ selectedMerchant # null
  /\ unlock.unlocked

\* C10: no step goes from MERCHANTS to MERCHANT_DETAIL selecting a closed
\* merchant, selectedMerchantId never names a closed merchant, and every
\* order's merchantName is the name of an open merchant.
C10_ClosedMerchantNeverSelected ==
  /\ [][\A m \in Range(MERCHANTS) :
          ~m.open => ~(/\ screen = "MERCHANTS" /\ screen' = "MERCHANT_DETAIL"
                       /\ selectedMerchantId' = m.id)]_vars
  /\ [](selectedMerchant # null => selectedMerchant.open)
  /\ [](order # null => \E m \in Range(MERCHANTS) : m.open /\ m.name = order.merchantName)

\* The search shows the closed merchant alone, in a session that has ordered.
C10_Witness ==
  /\ screen = "MERCHANTS"
  /\ phase = "idle"
  /\ Range(filtered) = {MERCHANTS[3]}
  /\ order # null

---------------------------------------------------------------------------
\* Scheduling.  The effects of a commit run: RunEffects is not put off for
\* ever.  A timer set by setTimeout does not stay pending for ever: it fires
\* unless clearTimeout removes it first.
TimersFire == \A next \in Range(steps) : []<>(next \notin timers)

FairSpec == Spec /\ WF_vars(MountEffects) /\ WF_vars(RunEffects) /\ TimersFire

\* C11 as stated: after a checkout the order status eventually reaches
\* DELIVERED, whatever the user does afterwards (short of leaving the page,
\* which cancels the timers).
C11_CheckoutLeadsToDelivered ==
  (screen = "TRACKING" /\ orderStatus = "PLACED")
    ~> (orderStatus = "DELIVERED" \/ phase = "unmounted")

\* C11 as amended: unless checkouts keep replacing the order for ever or the
\* session is torn down, every order is followed by a status of DELIVERED;
\* and on TRACKING with a DELIVERED order the unlock intent is enabled and
\* leads to UNLOCK.
C11_DeliveredUnlessReplacedForEver ==
  /\ \/ []<><<\E n \in OrderIds : Checkout(n)>>_vars
     \/ (order # null) ~> (orderStatus = "DELIVERED" \/ phase = "unmounted")
  /\ [](phase = "idle" /\ screen = "TRACKING" /\ orderStatus = "DELIVERED"
          => ENABLED TrackingUnlock)
  /\ [][TrackingUnlock => screen' = "UNLOCK"]_vars

\* A later order of the session has been delivered and its arrive point opened.
C11_Witness ==
  /\ screen = "UNLOCK"
  /\ orderStatus = "DELIVERED"
  /\ staleUnlock > 0

\* C12: at most one progression timer is pending; whenever a timer can fire
\* (the effects of the last commit have run) its target is the status after
\* order.status, so every firing moves status exactly one step, whether or
\* not a checkout has replaced the order meanwhile; and no timer is pending
\* once the session is torn down.
C12_OneTimerOneStep ==
  /\ [](Cardinality(timers) <= 1)
  /\ [](phase = "idle"
          => \A next \in timers :
               order # null /\ idx(next) = idx(order.status) + 1)
  /\ [](phase = "unmounted" => timers = {})
  /\ [][\A next \in Range(steps) :
          TimerFire(next) => idx(order'.status) = idx(order.status) + 1]_vars

\* The session is torn down while an order is in flight.
C12_Witness ==
  /\ phase = "unmounted"
  /\ orderStatus = "IN_FLIGHT"
  /\ statusDep = "IN_FLIGHT"

\* C13: a continuation that fires after its view was dismissed changes no
\* Session field.  Of all the continuations (send, verify, doUnlock, and the
\* doUnlock of an Unlock that is gone) only verify's changes the Session; it
\* fires only while Auth is still shown and nobody is signed in, and what it
\* does is sign in and go to DESTINATION.  A user, once set, stays as it is.
C13_StaleContinuationsChangeNothing ==
  /\ [][DoUnlockStale \/ DoUnlockDone \/ AuthSendDone => UNCHANGED appVars]_vars
  /\ [][AuthVerifyDone => screen = "AUTH" /\ user = null /\ user' # null]_vars
  /\ [][user # null => user' = user]_vars
  /\ [](Len(authPending) <= 1)
  /\ [](authPending # <<>> => screen = "AUTH" /\ user = null)

\* Done was pressed while doUnlock was waiting: the Unlock view is gone, its
\* continuation is still to fire.
C13_Witness ==
  /\ staleUnlock > 0
  /\ screen = "MERCHANTS"
  /\ phase = "idle"

\* C14: whenever screen is UNLOCK the order exists, its status is DELIVERED
\* and no timer is pending; and no step taken on UNLOCK, the one that leaves
\* it included, changes the order.
C14_UnlockScreenHasDeliveredOrder ==
  /\ [](screen = "UNLOCK" => order # null /\ orderStatus = "DELIVERED" /\ timers = {})
  /\ [][screen = "UNLOCK" => order' = order]_vars

\* The arrive point has been opened on the Unlock screen.
C14_Witness ==
  /\ screen = "UNLOCK"
  /\ unlock.unlocked
  /\ orderStatus = "DELIVERED"

\* C15: in every reachable state the guardrail effect would leave screen as
\* it is.  A user, once set, is never changed; from MERCHANTS, MERCHANT_DETAIL,
\* TRACKING and UNLOCK the screen never goes back to LANDING, AUTH or
\* DESTINATION, and no step taken there changes locationId or arrivePointId.
C15_GuardrailsNeverFire ==
  /\ [](Guardrails(screen, user, locationId, arrivePointId) = screen)
  /\ [][user # null => user' = user]_vars
  /\ [][(screen \in LaterScreens)
         => (screen' \in LaterScreens /\ locationId' = locationId
               /\ arrivePointId' = arrivePointId)]_vars

\* The guardrail effect is about to run for a signed-in user on Destination
\* whose arrive point has just been cleared by picking a location.
C15_Witness ==
  /\ phase = "effects"
  /\ screen = "DESTINATION"
  /\ user # null
  /\ locationId # ""
  /\ arrivePointId = ""

====
